---- MODULE Spec2Model ----
(***************************************************************************)
(* bevy_reflect: the structural diff of two reflected values               *)
(* (crates/bevy_reflect/src/diff) and the application of a diff to a base  *)
(* value.  A reflected value is a record tagged with its shape             *)
(* (ReflectRef), its type name (Reflect::type_name) and whether it is a    *)
(* Dynamic* container.                                                     *)
(***************************************************************************)
EXTENDS Integers, Sequences, FiniteSets, TLC

VARIABLES old, new, diff, given, base, out, pc, func, result, tuple

vars == <<old, new, diff, given, base, out, pc, func, result, tuple>>

(* Bounds of the value universe. *)
MaxVal == 1
MaxLen == 3

Vals == 0..MaxVal

Min(S) == CHOOSE x \in S : \A y \in S : x <= y

RECURSIVE Join(_)
Join(s) ==
    IF s = << >> THEN ""
    ELSE IF Len(s) = 1 THEN s[1]
    ELSE s[1] \o ", " \o Join(Tail(s))

(***************************************************************************)
(* Reflected values                                                        *)
(***************************************************************************)
\* Variant of TypeName that names a value by its shape only.
ShapeName(v) == v.shape

TypeName(v) == v.ty

TypeNames(items) == [i \in 1..Len(items) |-> TypeName(items[i])]

\* A leaf (ReflectRef::Value).  "Opaque" is a leaf type whose
\* reflect_partial_eq is not supported (returns None).
Leaf(ty, n) == [shape |-> "Value", ty |-> ty, dyn |-> FALSE, val |-> n]
I32(n) == Leaf("i32", n)
U32(n) == Leaf("u32", n)
Opaque == Leaf("Opaque", 0)

\* std::any::type_name of a tuple: "(A, B)".
TupleTypeName(items) == "(" \o Join(TypeNames(items)) \o ")"

MkTuple(items) ==
    [shape |-> "Tuple", ty |-> TupleTypeName(items), dyn |-> FALSE, items |-> items]

MkArray(elem, items) ==
    [shape |-> "Array", ty |-> "[" \o elem \o "; " \o ToString(Len(items)) \o "]",
     dyn |-> FALSE, items |-> items]

\* A list; elem is the name of the element type T::Item.
MkList(elem, items) ==
    [shape |-> "List", ty |-> "SmallVec<[" \o elem \o "; 4]>", dyn |-> FALSE,
     elem |-> elem, items |-> items]

\* A map; keys/items are in the map's iteration order, keys are unique.
MkMap(kty, vty, keys, items) ==
    [shape |-> "Map", ty |-> "HashMap<" \o kty \o ", " \o vty \o ">", dyn |-> FALSE,
     keys |-> keys, items |-> items]

MkTupleStruct(ty, items) ==
    [shape |-> "TupleStruct", ty |-> ty, dyn |-> FALSE, items |-> items]

MkStruct(ty, names, items) ==
    [shape |-> "Struct", ty |-> ty, dyn |-> FALSE, names |-> names, items |-> items]

\* A DynamicStruct representing type ty (set_represented_type), holding
\* only the fields inserted so far.
MkDynStruct(ty, names, items) ==
    [shape |-> "Struct", ty |-> ty, dyn |-> TRUE, names |-> names, items |-> items]

\* vkind is the VariantType: "Unit", "Tuple" or "Struct".
MkEnum(ty, variant, vkind, names, items) ==
    [shape |-> "Enum", ty |-> ty, dyn |-> FALSE, variant |-> variant,
     vkind |-> vkind, names |-> names, items |-> items]

\* A DynamicEnum representing type ty.
MkDynEnum(ty, variant, vkind, names, items) ==
    [shape |-> "Enum", ty |-> ty, dyn |-> TRUE, variant |-> variant,
     vkind |-> vkind, names |-> names, items |-> items]

Shapes == {"Value", "Tuple", "Array", "List", "Map", "TupleStruct", "Struct", "Enum"}

(***************************************************************************)
(* Reflect::clone_value, Reflect::reflect_partial_eq                       *)
(***************************************************************************)
RECURSIVE CloneValue(_)
CloneItems(items) == [i \in 1..Len(items) |-> CloneValue(items[i])]

\* Tuple::clone_dynamic: a DynamicTuple that keeps the represented type
\* (and so the type name) and holds the clone_value of every field.
tuple_clone_dynamic(v) == [v EXCEPT !.dyn = TRUE, !.items = CloneItems(v.items)]

\* clone_dynamic of the other containers.
container_clone_dynamic(v) ==
    IF v.shape = "Map"
    THEN [v EXCEPT !.dyn = TRUE, !.keys = CloneItems(v.keys),
                   !.items = CloneItems(v.items)]
    ELSE [v EXCEPT !.dyn = TRUE, !.items = CloneItems(v.items)]

CloneValue(v) ==
    CASE v.shape = "Value" -> v
      [] v.shape = "Tuple" -> tuple_clone_dynamic(v)
      [] OTHER -> container_clone_dynamic(v)

\* Option<bool> is "true", "false" or "none".
RECURSIVE ReflectPartialEq(_, _)

\* The pairwise loop shared by the *_partial_eq helpers: the first pair
\* that is not Some(true) decides (None propagates through `?`).
PairwisePartialEq(xs, ys) ==
    LET r == [i \in 1..Len(xs) |-> ReflectPartialEq(xs[i], ys[i])]
        bad == {i \in 1..Len(xs) : r[i] # "true"}
    IN IF bad = {} THEN "true"
       ELSE IF r[Min(bad)] = "none" THEN "none" ELSE "false"

value_partial_eq(a, b) ==
    IF a.ty = "Opaque" THEN "none"
    ELSE IF b.shape = "Value" /\ b.ty = a.ty /\ b.val = a.val THEN "true"
    ELSE "false"

tuple_partial_eq(a, b) ==
    IF b.shape # "Tuple" THEN "false"
    ELSE IF Len(a.items) # Len(b.items) THEN "false"
    ELSE PairwisePartialEq(a.items, b.items)

\* array_partial_eq, list_partial_eq, tuple_struct_partial_eq.
sequence_partial_eq(a, b) ==
    IF b.shape # a.shape THEN "false"
    ELSE IF Len(a.items) # Len(b.items) THEN "false"
    ELSE PairwisePartialEq(a.items, b.items)

\* Index of the field called name, 0 when there is none.
FieldIndex(names, name) ==
    IF \E i \in 1..Len(names) : names[i] = name
    THEN Min({i \in 1..Len(names) : names[i] = name})
    ELSE 0

struct_partial_eq(a, b) ==
    IF b.shape # "Struct" THEN "false"
    ELSE IF Len(a.items) # Len(b.items) THEN "false"
    ELSE IF \E i \in 1..Len(a.names) : FieldIndex(b.names, a.names[i]) = 0 THEN "false"
    ELSE PairwisePartialEq(a.items,
            [i \in 1..Len(a.items) |-> b.items[FieldIndex(b.names, a.names[i])]])

\* Map::get: the position of the entry whose key equals key, 0 when absent.
MapIndex(m, key) ==
    IF \E i \in 1..Len(m.keys) : ReflectPartialEq(m.keys[i], key) = "true"
    THEN Min({i \in 1..Len(m.keys) : ReflectPartialEq(m.keys[i], key) = "true"})
    ELSE 0

map_partial_eq(a, b) ==
    IF b.shape # "Map" THEN "false"
    ELSE IF Len(a.keys) # Len(b.keys) THEN "false"
    ELSE IF \E i \in 1..Len(a.keys) : MapIndex(b, a.keys[i]) = 0 THEN "false"
    ELSE PairwisePartialEq(a.items,
            [i \in 1..Len(a.keys) |-> b.items[MapIndex(b, a.keys[i])]])

\* The comparison is commented out in the source: every call is Some(true).
enum_partial_eq(enum_a, reflect_b) == "true"

ReflectPartialEq(a, b) ==
    CASE a.shape = "Value" -> value_partial_eq(a, b)
      [] a.shape = "Tuple" -> tuple_partial_eq(a, b)
      [] a.shape \in {"Array", "List", "TupleStruct"} -> sequence_partial_eq(a, b)
      [] a.shape = "Struct" -> struct_partial_eq(a, b)
      [] a.shape = "Map" -> map_partial_eq(a, b)
      [] a.shape = "Enum" -> enum_partial_eq(a, b)

(***************************************************************************)
(* Diff, DiffType, DiffError                                               *)
(***************************************************************************)
NoChange == [kind |-> "NoChange"]

\* Diff::Replaced(ValueDiff::Borrowed(v)) / ValueDiff::Owned(v).
Replaced(v) == [kind |-> "Replaced", value |-> v, owned |-> FALSE]

\* Diff::Modified(DiffType::Value(ValueDiff::Borrowed(v))).
ModifiedValue(v) ==
    [kind |-> "Modified", dtype |-> "Value", ty |-> TypeName(v), value |-> v,
     owned |-> FALSE]

\* Diff::Modified of DiffedTuple, DiffedArray, DiffedTupleStruct.
\* ekind is the EnumDiff variant of a DiffType::Enum ("Tuple", "Struct"),
\* "" for the other diff types.
ModifiedFields(dtype, ty, fields) ==
    [kind |-> "Modified", dtype |-> dtype, ekind |-> "", ty |-> ty, fields |-> fields]

\* Err(DiffError::e).
Err(e) == [kind |-> "Err", err |-> e]

IsErr(d) == d.kind = "Err"

RECURSIVE Diff(_, _)

\* Variant of Collect that reports Modified whenever no entry is an error.
CollectModified(ds, mk) ==
    LET errs == {i \in 1..Len(ds) : IsErr(ds[i])}
    IN IF errs # {} THEN ds[Min(errs)] ELSE mk

\* The loop `for .. { let d = a.diff(b)?; was_modified |= ..; push(d) }`
\* over the per-position results ds: the first error returns, otherwise
\* Modified(mk) when some entry is not NoChange, otherwise NoChange.
Collect(ds, mk) ==
    LET errs == {i \in 1..Len(ds) : IsErr(ds[i])}
    IN IF errs # {} THEN ds[Min(errs)]
       ELSE IF \E i \in 1..Len(ds) : ds[i] # NoChange THEN mk
       ELSE NoChange

\* Variant of ZipDiffs that keeps only the entries that are not NoChange.
ZipChanged(xs, ys) ==
    LET n == IF Len(xs) <= Len(ys) THEN Len(xs) ELSE Len(ys)
        all == [i \in 1..n |-> Diff(xs[i], ys[i])]
        Changed(d) == d # [kind |-> "NoChange"]
    IN SelectSeq(all, Changed)

ZipDiffs(xs, ys) ==
    LET n == IF Len(xs) <= Len(ys) THEN Len(xs) ELSE Len(ys)
    IN [i \in 1..n |-> Diff(xs[i], ys[i])]

\* Value shape: replaced on a type change, else decided by the equality probe.
diff_value(o, n) ==
    IF TypeName(o) # TypeName(n) THEN Replaced(n)
    ELSE LET eq == ReflectPartialEq(o, n)
         IN IF eq = "true" THEN NoChange
            ELSE IF eq = "false" THEN ModifiedValue(n)
            ELSE Err("Incomparable")

diff_tuple(o, n) ==
    IF n.shape # "Tuple" THEN Err("ExpectedTuple")
    ELSE IF Len(o.items) # Len(n.items) \/ TypeName(o) # TypeName(n) THEN Replaced(n)
    ELSE LET ds == ZipDiffs(o.items, n.items)
         IN Collect(ds, ModifiedFields("Tuple", TypeName(n), ds))

diff_array(o, n) ==
    IF n.shape # "Array" THEN Err("ExpectedArray")
    ELSE IF Len(o.items) # Len(n.items) \/ TypeName(o) # TypeName(n) THEN Replaced(n)
    ELSE LET ds == ZipDiffs(o.items, n.items)
         IN Collect(ds, ModifiedFields("Array", TypeName(n), ds))

\* Variant of diff_tuple_struct without the field_len comparison.
diff_tuple_struct_unchecked(o, n) ==
    IF n.shape # "TupleStruct" THEN Err("ExpectedTupleStruct")
    ELSE IF TypeName(o) # TypeName(n) THEN Replaced(n)
    ELSE LET ds == ZipDiffs(o.items, n.items)
         IN Collect(ds, ModifiedFields("TupleStruct", TypeName(n), ds))

diff_tuple_struct(o, n) ==
    IF n.shape # "TupleStruct" THEN Err("ExpectedTupleStruct")
    ELSE IF Len(o.items) # Len(n.items) \/ TypeName(o) # TypeName(n) THEN Replaced(n)
    ELSE LET ds == ZipDiffs(o.items, n.items)
         IN Collect(ds, ModifiedFields("TupleStruct", TypeName(n), ds))

\* Variant of PushField that keeps only the first field pushed.
PushFieldFirst(entries, name, d) ==
    IF entries = << >> THEN <<[name |-> name, diff |-> d]>> ELSE entries

\* DiffedStruct::push / the inserts of diff_enum: the HashMap entry of the
\* name is overwritten, the name is appended to field_order.
PushField(entries, name, d) ==
    IF \E i \in 1..Len(entries) : entries[i].name = name
    THEN [i \in 1..Len(entries) |->
            IF entries[i].name = name THEN [name |-> name, diff |-> d] ELSE entries[i]]
    ELSE Append(entries, [name |-> name, diff |-> d])

RECURSIVE PushAll(_, _, _)
PushAll(entries, names, ds) ==
    IF names = << >> THEN entries
    ELSE PushAll(PushField(entries, Head(names), Head(ds)), Tail(names), Tail(ds))

\* Variant of NamedDiffs that passes over a field of old that new lacks.
NamedDiffsSkipping(o, n) ==
    [i \in 1..Len(o.items) |->
        IF FieldIndex(n.names, o.names[i]) = 0 THEN [kind |-> "NoChange"]
        ELSE Diff(o.items[i], n.items[FieldIndex(n.names, o.names[i])])]

\* The per-field results of the struct loops, in old's field order: a field
\* of old that new lacks is Err(MissingField).
NamedDiffs(o, n) ==
    [i \in 1..Len(o.items) |->
        IF FieldIndex(n.names, o.names[i]) = 0 THEN Err("MissingField")
        ELSE Diff(o.items[i], n.items[FieldIndex(n.names, o.names[i])])]

\* Variant of ModifiedStruct that records the field order back to front.
ModifiedStructReversed(dtype, ty, names, ds) ==
    [kind |-> "Modified", dtype |-> dtype, ekind |-> "", ty |-> ty,
     entries |-> PushAll(<< >>, names, ds),
     field_order |-> [i \in 1..Len(names) |-> names[Len(names) + 1 - i]]]

ModifiedStruct(dtype, ty, names, ds) ==
    [kind |-> "Modified", dtype |-> dtype, ekind |-> "", ty |-> ty,
     entries |-> PushAll(<< >>, names, ds), field_order |-> names]

\* Variant of diff_struct that takes a value of another shape as a
\* replacement.
diff_struct_lenient(o, n) ==
    IF n.shape # "Struct" \/ TypeName(o) # TypeName(n) THEN Replaced(n)
    ELSE LET ds == NamedDiffs(o, n)
         IN Collect(ds, ModifiedStruct("Struct", TypeName(n), o.names, ds))

\* DiffedStruct::field: the HashMap lookup, None is << >>.
field(d, name) ==
    IF \E i \in 1..Len(d.entries) : d.entries[i].name = name
    THEN <<d.entries[CHOOSE i \in 1..Len(d.entries) : d.entries[i].name = name].diff>>
    ELSE << >>

\* DiffedStruct::field_at, index counted from 0.
field_at(d, index) ==
    IF index < Len(d.field_order) THEN field(d, d.field_order[index + 1]) ELSE << >>

\* DiffedStruct::field_len: the size of the HashMap.
field_len(d) == Len(d.entries)

\* DiffedStruct::field_iter: the (name, diff) pairs in field_order.
field_iter(d) ==
    [i \in 1..Len(d.field_order) |-> <<d.field_order[i], field(d, d.field_order[i])[1]>>]

diff_struct(o, n) ==
    IF n.shape # "Struct" THEN Err("ExpectedStruct")
    ELSE IF TypeName(o) # TypeName(n) THEN Replaced(n)
    ELSE LET ds == NamedDiffs(o, n)
         IN Collect(ds, ModifiedStruct("Struct", TypeName(n), o.names, ds))

diff_enum(o, n) ==
    IF n.shape # "Enum" THEN Err("ExpectedEnum")
    ELSE IF o.vkind # n.vkind \/ o.variant # n.variant \/ TypeName(o) # TypeName(n)
    THEN Replaced(n)
    ELSE CASE o.vkind = "Struct" ->
                LET ds == NamedDiffs(o, n)
                IN Collect(ds, [ModifiedStruct("Enum", TypeName(n), o.names, ds)
                                  EXCEPT !.ekind = "Struct"])
           [] o.vkind = "Tuple" ->
                LET ds == ZipDiffs(o.items, n.items)
                IN Collect(ds, [ModifiedFields("Enum", TypeName(n), ds)
                                  EXCEPT !.ekind = "Tuple"])
           [] o.vkind = "Unit" -> NoChange

\* MapDiff::Deleted(key), MapDiff::Inserted(key, value), MapDiff::Modified(key, diff).
MapDeleted(key) == [op |-> "Deleted", key |-> key]
MapInserted(key, value) == [op |-> "Inserted", key |-> key, value |-> value]
MapModified(key, d) == [op |-> "Modified", key |-> key, diff |-> d]

IsMapEdit(e) == e.op \in {"Deleted", "Inserted", "Modified"}

\* First loop of diff_map, for old's i-th entry.
OldEntryEdit(o, n, i) ==
    LET j == MapIndex(n, o.keys[i])
    IN IF j = 0 THEN MapDeleted(o.keys[i])
       ELSE LET d == Diff(o.items[i], n.items[j])
            IN IF IsErr(d) THEN [op |-> "Err", diff |-> d]
               ELSE IF d = NoChange THEN [op |-> "Same"]
               ELSE MapModified(o.keys[i], d)

\* Variant of NewEntryEdit that never reports an insertion.
NewEntryEditNone(o, n, i) == [op |-> "Same"]

\* Variant of NewEntryEdit that reports every entry of new as inserted.
NewEntryEditAll(o, n, i) == MapInserted(n.keys[i], n.items[i])

\* Second loop of diff_map, for new's i-th entry.
NewEntryEdit(o, n, i) ==
    IF MapIndex(o, n.keys[i]) = 0 THEN MapInserted(n.keys[i], n.items[i])
    ELSE [op |-> "Same"]

\* Variant of diff_map that runs the loop over new before the loop over old.
diff_map_new_first(o, n) ==
    IF n.shape # "Map" THEN Err("ExpectedMap")
    ELSE IF TypeName(o) # TypeName(n) THEN Replaced(n)
    ELSE LET olds == [i \in 1..Len(o.keys) |-> OldEntryEdit(o, n, i)]
             news == [i \in 1..Len(n.keys) |-> NewEntryEdit(o, n, i)]
             errs == {i \in 1..Len(olds) : olds[i].op = "Err"}
             changes == SelectSeq(news, IsMapEdit) \o SelectSeq(olds, IsMapEdit)
         IN IF errs # {} THEN olds[Min(errs)].diff
            ELSE IF changes # << >>
            THEN [kind |-> "Modified", dtype |-> "Map", ekind |-> "", ty |-> TypeName(n),
                  changes |-> changes]
            ELSE NoChange

diff_map(o, n) ==
    IF n.shape # "Map" THEN Err("ExpectedMap")
    ELSE IF TypeName(o) # TypeName(n) THEN Replaced(n)
    ELSE LET olds == [i \in 1..Len(o.keys) |-> OldEntryEdit(o, n, i)]
             news == [i \in 1..Len(n.keys) |-> NewEntryEdit(o, n, i)]
             errs == {i \in 1..Len(olds) : olds[i].op = "Err"}
             changes == SelectSeq(olds, IsMapEdit) \o SelectSeq(news, IsMapEdit)
         IN IF errs # {} THEN olds[Min(errs)].diff
            ELSE IF changes # << >>
            THEN [kind |-> "Modified", dtype |-> "Map", ekind |-> "", ty |-> TypeName(n),
                  changes |-> changes]
            ELSE NoChange

(***************************************************************************)
(* diff_list: the Myers O(ND) edit script between two lists.  Two elements *)
(* are equal when their own diff is NoChange.                              *)
(***************************************************************************)
\* ListDiff::Inserted(index, value), ListDiff::Deleted(index).
ListInserted(index, value) == [op |-> "Inserted", index |-> index, value |-> value]
ListDeleted(index) == [op |-> "Deleted", index |-> index]

\* Variant of Snake that never follows a diagonal.
SnakeStay(olds, news, x, y) == [x |-> x, errs |-> << >>]

\* Follows the diagonal from (x, y) while the elements are equal; errs
\* holds the element diff error that stopped it, if any.
RECURSIVE Snake(_, _, _, _)
Snake(olds, news, x, y) ==
    IF x < Len(olds) /\ y < Len(news) /\ x >= 0 /\ y >= 0
    THEN LET d == Diff(olds[x + 1], news[y + 1])
         IN IF IsErr(d) THEN [x |-> x, errs |-> <<d>>]
            ELSE IF d = NoChange THEN Snake(olds, news, x + 1, y + 1)
            ELSE [x |-> x, errs |-> << >>]
    ELSE [x |-> x, errs |-> << >>]

\* Variant of CameDown that breaks ties towards the insertion.
CameDownTie(V, d, k) == k = -d \/ (k # d /\ V[k - 1] <= V[k + 1])

\* Whether the furthest path on diagonal k in round d came down from
\* diagonal k + 1 (an insertion) rather than right from k - 1 (a deletion).
CameDown(V, d, k) == k = -d \/ (k # d /\ V[k - 1] < V[k + 1])

\* Round d of the search, diagonals k, k + 2, .., d.
RECURSIVE MyersK(_, _, _, _, _)
MyersK(olds, news, d, k, V) ==
    IF k > d THEN [V |-> V, found |-> FALSE, errs |-> << >>]
    ELSE LET x0 == IF CameDown(V, d, k) THEN V[k + 1] ELSE V[k - 1] + 1
             s == Snake(olds, news, x0, x0 - k)
             V2 == [V EXCEPT ![k] = s.x]
         IN IF s.errs # << >> THEN [V |-> V2, found |-> FALSE, errs |-> s.errs]
            ELSE IF s.x >= Len(olds) /\ s.x - k >= Len(news)
            THEN [V |-> V2, found |-> TRUE, errs |-> << >>]
            ELSE MyersK(olds, news, d, k + 2, V2)

\* The rounds d, d + 1, ..; trace[i] is V at the start of round i - 1.
RECURSIVE MyersD(_, _, _, _, _)
MyersD(olds, news, d, V, trace) ==
    LET r == MyersK(olds, news, d, -d, V)
    IN IF r.errs # << >> THEN [d |-> d, trace |-> trace, errs |-> r.errs]
       ELSE IF r.found THEN [d |-> d, trace |-> Append(trace, V), errs |-> << >>]
       ELSE MyersD(olds, news, d + 1, r.V, Append(trace, V))

\* Walks the trace back from (x, y) at round d; the edits, first to last.
RECURSIVE Backtrack(_, _, _, _, _)
Backtrack(news, trace, d, x, y) ==
    IF d = 0 THEN << >>
    ELSE LET V == trace[d + 1]
             k == x - y
             pk == IF CameDown(V, d, k) THEN k + 1 ELSE k - 1
             px == V[pk]
             py == px - pk
             edit == IF pk = k + 1 THEN ListInserted(px, news[py + 1])
                     ELSE ListDeleted(px)
         IN Append(Backtrack(news, trace, d - 1, px, py), edit)

IsInserted(e) == e.op = "Inserted"
IsDeleted(e) == e.op = "Deleted"

diff_list(o, n) ==
    IF n.shape # "List" THEN Err("ExpectedList")
    ELSE IF TypeName(o) # TypeName(n) THEN Replaced(n)
    ELSE LET N == Len(o.items)
             M == Len(n.items)
             V0 == [k \in -(N + M + 1)..(N + M + 1) |-> 0]
             r == MyersD(o.items, n.items, 0, V0, << >>)
             changes == Backtrack(n.items, r.trace, r.d, N, M)
         IN IF r.errs # << >> THEN r.errs[1]
            ELSE IF changes = << >> THEN NoChange
            ELSE [kind |-> "Modified", dtype |-> "List", ekind |-> "", ty |-> TypeName(n),
                  changes |-> changes,
                  total_insertions |-> Len(SelectSeq(changes, IsInserted)),
                  total_deletions |-> Len(SelectSeq(changes, IsDeleted))]

\* Reflect::diff: each shape's implementation calls its diff_* utility.
Diff(o, n) ==
    CASE o.shape = "Value" -> diff_value(o, n)
      [] o.shape = "Tuple" -> diff_tuple(o, n)
      [] o.shape = "Array" -> diff_array(o, n)
      [] o.shape = "List" -> diff_list(o, n)
      [] o.shape = "Map" -> diff_map(o, n)
      [] o.shape = "TupleStruct" -> diff_tuple_struct(o, n)
      [] o.shape = "Struct" -> diff_struct(o, n)
      [] o.shape = "Enum" -> diff_enum(o, n)

(***************************************************************************)
(* Diff::apply and the per-shape apply_*_diff                              *)
(***************************************************************************)
\* Variant of Ok that returns a clone of the value.
OkCloned(v) == [ok |-> TRUE, value |-> CloneValue(v)]

\* Variant of ApplyErr that reports every error as TypeMismatch.
ApplyErrMismatch(e) == [ok |-> FALSE, err |-> "TypeMismatch"]

\* Result<Box<dyn Reflect>, DiffApplyError>.
Ok(v) == [ok |-> TRUE, value |-> v]
ApplyErr(e) == [ok |-> FALSE, err |-> e]

\* The concrete value a dynamic representation converts to.
RECURSIVE Concretize(_)
Concretize(v) ==
    CASE v.shape = "Value" -> v
      [] v.shape = "Map" ->
            [v EXCEPT !.dyn = FALSE,
                      !.keys = [i \in 1..Len(v.keys) |-> Concretize(v.keys[i])],
                      !.items = [i \in 1..Len(v.items) |-> Concretize(v.items[i])]]
      [] OTHER ->
            [v EXCEPT !.dyn = FALSE,
                      !.items = [i \in 1..Len(v.items) |-> Concretize(v.items[i])]]

\* FromReflect::from_reflect into the type named ty: None (<< >>) unless
\* the value is of that type.
FromReflect(ty, v) == IF TypeName(v) = ty THEN <<Concretize(v)>> ELSE << >>

\* Variant of TakeValue that hands out the borrowed value itself.
TakeValueAsIs(d) == d.value

\* ValueDiff::Owned(v) gives v itself, ValueDiff::Borrowed(v) its clone_value.
TakeValue(d) == IF d.owned THEN d.value ELSE CloneValue(d.value)

RECURSIVE Apply(_, _)

\* Applies ds[i] to items[i] for every i; the first error returns.
ApplyEach(ds, items) ==
    LET rs == [i \in 1..Len(ds) |-> Apply(ds[i], items[i])]
        errs == {i \in 1..Len(ds) : ~rs[i].ok}
    IN IF errs # {} THEN rs[Min(errs)]
       ELSE Ok([i \in 1..Len(ds) |-> rs[i].value])

\* apply_tuple_diff, apply_array_diff, apply_tuple_struct_diff: every
\* positional sub-diff is applied to the field at its position.
apply_positional_diff(b, d) ==
    IF TypeName(b) # d.ty \/ Len(b.items) # Len(d.fields) THEN ApplyErr("TypeMismatch")
    ELSE LET r == ApplyEach(d.fields, b.items)
         IN IF r.ok THEN Ok([b EXCEPT !.items = r.value]) ELSE r

\* The named sub-diffs applied to the same-named fields of b.
ApplyNamed(b, d) ==
    LET diffOf(name) ==
            d.entries[CHOOSE i \in 1..Len(d.entries) : d.entries[i].name = name].diff
        missing == \E i \in 1..Len(d.field_order) : FieldIndex(b.names, d.field_order[i]) = 0
        rs == [i \in 1..Len(b.items) |->
                 IF \E j \in 1..Len(d.entries) : d.entries[j].name = b.names[i]
                 THEN Apply(diffOf(b.names[i]), b.items[i])
                 ELSE Ok(b.items[i])]
        errs == {i \in 1..Len(b.items) : ~rs[i].ok}
    IN IF missing THEN ApplyErr("MissingField")
       ELSE IF errs # {} THEN rs[Min(errs)]
       ELSE Ok([b EXCEPT !.items = [i \in 1..Len(b.items) |-> rs[i].value]])

apply_struct_diff(b, d) ==
    IF TypeName(b) # d.ty THEN ApplyErr("TypeMismatch") ELSE ApplyNamed(b, d)

apply_enum_diff(b, d) ==
    IF TypeName(b) # d.ty THEN ApplyErr("TypeMismatch")
    ELSE IF d.ekind = "Tuple"
    THEN IF b.vkind # "Tuple" THEN ApplyErr("ExpectedTupleVariant")
         ELSE IF Len(d.fields) > Len(b.items) THEN ApplyErr("MissingField")
         ELSE LET r == ApplyEach(d.fields, SubSeq(b.items, 1, Len(d.fields)))
              IN IF r.ok
                 THEN Ok([b EXCEPT !.items =
                            r.value \o SubSeq(b.items, Len(d.fields) + 1, Len(b.items))])
                 ELSE r
    ELSE IF b.vkind # "Struct" THEN ApplyErr("ExpectedStructVariant")
         ELSE ApplyNamed(b, d)

\* Variant of ListInsertValue that takes every value as it is.
ListInsertAny(b, value) == <<value>>

\* The closure `insert` of apply_list_diff: the value converted to the
\* list's element type; a DynamicList takes the value as it is.
ListInsertValue(b, value) ==
    IF b.dyn THEN <<CloneValue(value)>> ELSE FromReflect(b.elem, value)

\* The `while has_change(&changes, curr_index)` loop: changes is the
\* reversed stack, next edit first.
RECURSIVE ChangesAt(_, _, _, _)
ChangesAt(b, changes, curr_index, acc) ==
    IF changes # << >> /\ Head(changes).index = curr_index
    THEN IF Head(changes).op = "Deleted"
         THEN [changes |-> Tail(changes), acc |-> acc, deleted |-> TRUE, ok |-> TRUE]
         ELSE LET conv == ListInsertValue(b, Head(changes).value)
              IN IF conv = << >>
                 THEN [changes |-> Tail(changes), acc |-> acc, deleted |-> FALSE,
                       ok |-> FALSE]
                 ELSE ChangesAt(b, Tail(changes), curr_index, Append(acc, conv[1]))
    ELSE [changes |-> changes, acc |-> acc, deleted |-> FALSE, ok |-> TRUE]

\* The loop over the elements of the base list from curr_index on.
RECURSIVE WalkList(_, _, _, _)
WalkList(b, changes, curr_index, acc) ==
    IF curr_index >= Len(b.items) THEN [changes |-> changes, acc |-> acc, ok |-> TRUE]
    ELSE LET r == ChangesAt(b, changes, curr_index, acc)
         IN IF ~r.ok THEN [changes |-> r.changes, acc |-> r.acc, ok |-> FALSE]
            ELSE IF r.deleted THEN WalkList(b, r.changes, curr_index + 1, r.acc)
            ELSE WalkList(b, r.changes, curr_index + 1,
                          Append(r.acc, b.items[curr_index + 1]))

\* `while let Some(ListDiff::Inserted(_, value)) = changes.pop()`.
RECURSIVE InsertRemaining(_, _, _)
InsertRemaining(b, changes, acc) ==
    IF changes = << >> \/ Head(changes).op # "Inserted" THEN [acc |-> acc, ok |-> TRUE]
    ELSE LET conv == ListInsertValue(b, Head(changes).value)
         IN IF conv = << >> THEN [acc |-> acc, ok |-> FALSE]
            ELSE InsertRemaining(b, Tail(changes), Append(acc, conv[1]))

\* new_len is computed in usize: more deletions than elements and insertions
\* together make the subtraction overflow, and the call panics.
apply_list_diff(b, d) ==
    IF TypeName(b) # d.ty THEN ApplyErr("TypeMismatch")
    ELSE IF Len(b.items) + d.total_insertions < d.total_deletions THEN ApplyErr("Panic")
    ELSE LET w == WalkList(b, d.changes, 0, << >>)
             r == InsertRemaining(b, w.changes, w.acc)
         IN IF ~w.ok \/ ~r.ok THEN ApplyErr("TypeMismatch")
            ELSE Ok([b EXCEPT !.items = r.acc])

\* One map edit applied to the map m.
RemoveAt(sq, i) == [j \in 1..(Len(sq) - 1) |-> IF j < i THEN sq[j] ELSE sq[j + 1]]

ApplyMapEdit(m, e) ==
    LET i == MapIndex(m, e.key)
    IN CASE e.op = "Deleted" ->
              IF i = 0 THEN Ok(m)
              ELSE Ok([m EXCEPT !.keys = RemoveAt(m.keys, i), !.items = RemoveAt(m.items, i)])
         [] e.op = "Inserted" ->
              IF i = 0
              THEN Ok([m EXCEPT !.keys = Append(m.keys, CloneValue(e.key)),
                                !.items = Append(m.items, CloneValue(e.value))])
              ELSE Ok([m EXCEPT !.items[i] = CloneValue(e.value)])
         [] e.op = "Modified" ->
              IF i = 0 THEN ApplyErr("Failed")
              ELSE LET r == Apply(e.diff, m.items[i])
                   IN IF r.ok THEN Ok([m EXCEPT !.items[i] = r.value]) ELSE r

RECURSIVE ApplyMapEdits(_, _)
ApplyMapEdits(m, changes) ==
    IF changes = << >> THEN Ok(m)
    ELSE LET r == ApplyMapEdit(m, Head(changes))
         IN IF r.ok THEN ApplyMapEdits(r.value, Tail(changes)) ELSE r

apply_map_diff(b, d) ==
    IF TypeName(b) # d.ty THEN ApplyErr("TypeMismatch") ELSE ApplyMapEdits(b, d.changes)

\* Diff::apply.
Apply(d, b) ==
    CASE d.kind = "NoChange" -> Ok(b)
      [] d.kind = "Replaced" -> Ok(TakeValue(d))
      [] d.kind = "Modified" ->
           CASE d.dtype = "Value" ->
                    IF b.shape = "Value" THEN Ok(TakeValue(d)) ELSE ApplyErr("ExpectedValue")
             [] d.dtype = "Tuple" ->
                    IF b.shape = "Tuple" THEN apply_positional_diff(b, d)
                    ELSE ApplyErr("ExpectedTuple")
             [] d.dtype = "Array" ->
                    IF b.shape = "Array" THEN apply_positional_diff(b, d)
                    ELSE ApplyErr("ExpectedArray")
             [] d.dtype = "List" ->
                    IF b.shape = "List" THEN apply_list_diff(b, d)
                    ELSE ApplyErr("ExpectedList")
             [] d.dtype = "Map" ->
                    IF b.shape = "Map" THEN apply_map_diff(b, d)
                    ELSE ApplyErr("ExpectedMap")
             [] d.dtype = "TupleStruct" ->
                    IF b.shape = "TupleStruct" THEN apply_positional_diff(b, d)
                    ELSE ApplyErr("ExpectedTupleStruct")
             [] d.dtype = "Struct" ->
                    IF b.shape = "Struct" THEN apply_struct_diff(b, d)
                    ELSE ApplyErr("ExpectedStruct")
             [] d.dtype = "Enum" ->
                    IF b.shape = "Enum" THEN apply_enum_diff(b, d)
                    ELSE ApplyErr("ExpectedEnum")

(***************************************************************************)
(* The values diffed: for every shape, concrete values of two types, the   *)
(* Dynamic* stand-ins that represent them, and the lists of the module     *)
(* documentation and tests.                                                *)
(***************************************************************************)
I32s == {I32(n) : n \in Vals}

SeqsUpTo(S, n) == UNION {[1..m -> S] : m \in 0..n}

FamValue == I32s \cup {U32(n) : n \in Vals} \cup {Opaque}

FamTuple ==
    {MkTuple(<<a, b>>) : a \in I32s, b \in I32s}
    \cup {MkTuple(<<a, b, I32(0)>>) : a \in I32s, b \in I32s}
    \cup {CloneValue(MkTuple(<<a, I32(0)>>)) : a \in I32s}
    \cup {MkTuple(<<U32(0), U32(0)>>), MkTuple(<<I32(0), Opaque>>),
          MkTuple(<<I32(1), Opaque, I32(0)>>),
          MkTuple(<<I32(0), MkList("i32", <<I32(0)>>)>>),
          MkTuple(<<I32(0), MkList("i32", <<I32(1), I32(0)>>)>>)}

FamArray ==
    {MkArray("i32", <<a, b>>) : a \in I32s, b \in I32s}
    \cup {MkArray("i32", <<a, b, I32(0)>>) : a \in I32s, b \in I32s}
    \cup {MkArray("u32", <<U32(0), U32(0)>>), MkArray("Opaque", <<Opaque, Opaque>>),
          MkArray("Opaque", <<Opaque, Opaque, Opaque>>)}

FamTupleStruct ==
    {MkTupleStruct("FooTS", <<a, b>>) : a \in I32s, b \in I32s}
    \cup {MkTupleStruct("BarTS", <<a, b>>) : a \in I32s, b \in I32s}
    \cup {MkTupleStruct("BazTS", <<a, I32(0), I32(0)>>) : a \in I32s}
    \cup {[MkTupleStruct("FooTS", <<a>>) EXCEPT !.dyn = TRUE] : a \in I32s}
    \cup {MkTupleStruct("QuxTS", <<I32(0), Opaque>>),
          [MkTupleStruct("QuxTS", <<I32(0), Opaque, I32(0)>>) EXCEPT !.dyn = TRUE]}

FamStruct ==
    {MkStruct("Foo", <<"a", "b">>, <<a, b>>) : a \in I32s, b \in I32s}
    \cup {MkStruct("Bar", <<"a", "b">>, <<a, b>>) : a \in I32s, b \in I32s}
    \cup {MkDynStruct("Foo", <<"a">>, <<a>>) : a \in I32s}
    \cup {MkDynStruct("Foo", <<"b", "a">>, <<b, a>>) : a \in I32s, b \in I32s}
    \cup {MkStruct("Qux", <<"a", "o">>, <<a, Opaque>>) : a \in I32s}
    \cup {MkDynStruct("Qux", <<"o">>, <<Opaque>>),
          MkDynStruct("Qux", <<"o", "a">>, <<Opaque, I32(0)>>)}

FamList ==
    {MkList("i32", s) : s \in SeqsUpTo(I32s, MaxLen)}
    \cup {MkList("u32", << >>), MkList("u32", <<U32(0)>>),
          MkList("Opaque", << >>), MkList("Opaque", <<Opaque>>),
          [MkList("i32", <<I32(0), U32(0)>>) EXCEPT !.dyn = TRUE]}

MapKeys ==
    {<< >>, <<I32(0)>>, <<I32(1)>>, <<I32(0), I32(1)>>, <<I32(1), I32(0)>>,
     <<I32(1), I32(2)>>}

FamMap ==
    UNION {{MkMap("i32", "i32", ks, vs) : vs \in [1..Len(ks) -> I32s]} : ks \in MapKeys}
    \cup {MkMap("i32", "u32", << >>, << >>), MkMap("i32", "u32", <<I32(0)>>, <<U32(0)>>),
          MkMap("i32", "Opaque", <<I32(0)>>, <<Opaque>>)}

FamEnum ==
    {MkEnum("FooE", "A", "Unit", << >>, << >>), MkEnum("FooE", "D", "Unit", << >>, << >>),
     MkEnum("BarE", "A", "Unit", << >>, << >>),
     MkEnum("BarE", "B", "Tuple", << >>, <<I32(0), I32(0)>>),
     MkEnum("BarE", "C", "Struct", <<"x", "y">>, <<I32(0), I32(0)>>),
     MkEnum("FooE", "G", "Tuple", << >>, <<I32(0), Opaque>>),
     MkEnum("FooE", "H", "Struct", <<"x", "o">>, <<I32(0), Opaque>>),
     MkDynEnum("FooE", "A", "Tuple", << >>, <<I32(0)>>),
     MkDynEnum("FooE", "H", "Struct", <<"o">>, <<Opaque>>),
     MkDynEnum("FooE", "H", "Struct", <<"o", "x">>, <<Opaque, I32(0)>>)}
    \cup {MkEnum("FooE", v, "Tuple", << >>, <<a, b>>) : v \in {"B", "E"}, a \in I32s, b \in I32s}
    \cup {MkEnum("FooE", v, "Struct", <<"x", "y">>, <<a, b>>) :
             v \in {"C", "F"}, a \in I32s, b \in I32s}
    \cup {MkDynEnum("FooE", "B", "Tuple", << >>, <<a>>) : a \in I32s}
    \cup {MkDynEnum("FooE", "C", "Struct", <<"y">>, <<a>>) : a \in I32s}

\* One value of every shape, for the pairs of different shapes.
Reps ==
    {I32(0), MkTuple(<<I32(0), I32(0)>>), MkArray("i32", <<I32(0), I32(0)>>),
     MkList("i32", <<I32(0)>>), MkMap("i32", "i32", <<I32(0)>>, <<I32(0)>>),
     MkTupleStruct("FooTS", <<I32(0), I32(0)>>),
     MkStruct("Foo", <<"a", "b">>, <<I32(0), I32(0)>>),
     MkEnum("FooE", "B", "Tuple", << >>, <<I32(0), I32(0)>>)}

\* The bases a diff is applied to besides old: one per shape, and lists of
\* other lengths, of another element type, and a DynamicList.
Bases ==
    Reps \cup {MkList("i32", << >>), MkList("u32", <<U32(0)>>),
               CloneValue(MkList("i32", <<I32(1)>>))}

\* The diff with its carried value owned: ValueDiff::Owned(value).
ToOwned(d) ==
    IF d.kind = "Replaced" \/ (d.kind = "Modified" /\ d.dtype = "Value")
    THEN [d EXCEPT !.owned = TRUE]
    ELSE d

IntList(s) == MkList("i32", [i \in 1..Len(s) |-> I32(s[i])])

\* The list examples of the module documentation and of should_diff_list.
DocOld1 == IntList(<<1, 2, 3, 4, 5>>)
DocNew1 == IntList(<<1, 0, 3, 6, 8, 4, 7>>)
DocOld2 == IntList(<<8, -1, 5>>)
DocNew2 == IntList(<<9, 8, 7, 6, 5>>)
DocOld3 == IntList(<< >>)
DocNew3 == IntList(<<1, 2, 3>>)
DocOld4 == IntList(<<1, 2, 3>>)
DocNew4 == IntList(<<9, 1, 2, 3>>)

DocPairs ==
    {<<DocOld1, DocNew1>>, <<DocOld2, DocNew2>>, <<DocOld3, DocNew3>>,
     <<DocOld4, DocNew4>>}

Families ==
    {FamValue, FamTuple, FamArray, FamTupleStruct, FamStruct, FamList, FamMap, FamEnum, Reps}

InputPairs == UNION {F \X F : F \in Families} \cup DocPairs

(***************************************************************************)
(* func: FunctionMap and the overloads of a DynamicFunction.  A function   *)
(* is named by a letter, as in the tests of function_map.rs; a             *)
(* FunctionInfo is the record of its name and its argument signature.      *)
(***************************************************************************)
Funcs == {"a", "b"}

\* ArgumentSignature: the sequence of the argument types of a function.
Sigs == {<<"i8">>, <<"u8">>, <<"i16">>, <<"i8", "i16">>}

FunctionInfo(sig) == [name |-> "anonymous", sig |-> sig]

\* ArgumentSignature::from(&info).
ArgumentSignature(info) == info.sig

\* FunctionMap::Single(function, info).
Single(f, info) == [variant |-> "Single", func |-> f, info |-> info]

\* FunctionMap::Overloaded(functions, infos, indices): indices is the
\* HashMap from signature to function index, counted from 0.
Overloaded(functions, infos, indices) ==
    [variant |-> "Overloaded", functions |-> functions, infos |-> infos,
     indices |-> indices]

\* HashMap::insert_unique_unchecked for a key the map does not hold.
InsertUnique(indices, sig, index) ==
    [k \in DOMAIN indices \cup {sig} |-> IF k = sig THEN index ELSE indices[k]]

EmptyIndices == [k \in {} |-> 0]

\* Err((Box::new(map), FunctionOverloadError { signature })).
MergeErr(map, sig) == [ok |-> FALSE, map |-> map, signature |-> sig]

MergeOk(map) == [ok |-> TRUE, map |-> map]

\* FunctionMap::merge, the four arms of the match.  The result is the set of
\* the outcomes the call can have: the arm of two overloaded maps reports the
\* first common signature in the iteration order of a HashMap.
merge_single_single(a, b) ==
    LET self_sig == ArgumentSignature(a.info)
        other_sig == ArgumentSignature(b.info)
    IN IF self_sig = other_sig THEN {MergeErr(Single(a.func, a.info), self_sig)}
       ELSE {MergeOk(Overloaded(<<a.func, b.func>>, <<a.info, b.info>>,
                InsertUnique(InsertUnique(EmptyIndices, self_sig, 0), other_sig, 1)))}

\* The arm of a single and an overloaded map leaving the indices of the
\* overloaded map as they were.
merge_single_overloaded_unshifted(a, b) ==
    LET self_sig == ArgumentSignature(a.info)
    IN IF self_sig \in DOMAIN b.indices
       THEN {MergeErr(Single(a.func, a.info), self_sig)}
       ELSE {MergeOk(Overloaded(<<a.func>> \o b.functions, <<a.info>> \o b.infos,
                InsertUnique(b.indices, self_sig, 0)))}

merge_single_overloaded(a, b) ==
    LET self_sig == ArgumentSignature(a.info)
        shifted == [k \in DOMAIN b.indices |-> b.indices[k] + 1]
    IN IF self_sig \in DOMAIN b.indices
       THEN {MergeErr(Single(a.func, a.info), self_sig)}
       ELSE {MergeOk(Overloaded(<<a.func>> \o b.functions, <<a.info>> \o b.infos,
                InsertUnique(shifted, self_sig, 0)))}

\* The arm of an overloaded and a single map pushing the function before it
\* looks for the signature.
merge_overloaded_single_pushed(a, b) ==
    LET other_sig == ArgumentSignature(b.info)
        index == Len(a.functions)
        pushed == Overloaded(Append(a.functions, b.func), Append(a.infos, b.info),
                             a.indices)
    IN IF other_sig \in DOMAIN a.indices
       THEN {MergeErr(pushed, other_sig)}
       ELSE {MergeOk(Overloaded(pushed.functions, pushed.infos,
                InsertUnique(a.indices, other_sig, index)))}

merge_overloaded_single(a, b) ==
    LET other_sig == ArgumentSignature(b.info)
        index == Len(a.functions)
    IN IF other_sig \in DOMAIN a.indices
       THEN {MergeErr(Overloaded(a.functions, a.infos, a.indices), other_sig)}
       ELSE {MergeOk(Overloaded(Append(a.functions, b.func), Append(a.infos, b.info),
                InsertUnique(a.indices, other_sig, index)))}

\* The arm of two overloaded maps taking the indices of the other map as
\* they are.
merge_overloaded_overloaded_unshifted(a, b) ==
    LET common == DOMAIN b.indices \cap DOMAIN a.indices
    IN IF common # {}
       THEN {MergeErr(Overloaded(a.functions, a.infos, a.indices), sig) : sig \in common}
       ELSE {MergeOk(Overloaded(a.functions \o b.functions, a.infos \o b.infos,
                [k \in DOMAIN a.indices \cup DOMAIN b.indices |->
                    IF k \in DOMAIN b.indices THEN b.indices[k] ELSE a.indices[k]]))}

merge_overloaded_overloaded(a, b) ==
    LET common == DOMAIN b.indices \cap DOMAIN a.indices
        new_indices == [k \in DOMAIN b.indices |-> Len(a.functions) + b.indices[k]]
    IN IF common # {}
       THEN {MergeErr(Overloaded(a.functions, a.infos, a.indices), sig) : sig \in common}
       ELSE {MergeOk(Overloaded(a.functions \o b.functions, a.infos \o b.infos,
                [k \in DOMAIN a.indices \cup DOMAIN new_indices |->
                    IF k \in DOMAIN new_indices THEN new_indices[k] ELSE a.indices[k]]))}

merge(a, b) ==
    CASE a.variant = "Single" /\ b.variant = "Single" -> merge_single_single(a, b)
      [] a.variant = "Single" /\ b.variant = "Overloaded" -> merge_single_overloaded(a, b)
      [] a.variant = "Overloaded" /\ b.variant = "Single" -> merge_overloaded_single(a, b)
      [] a.variant = "Overloaded" /\ b.variant = "Overloaded" ->
            merge_overloaded_overloaded(a, b)

\* DynamicFunction { name, function_map }; name is an Option, None is << >>.
DynamicFunction(name, function_map) == [name |-> name, function_map |-> function_map]

\* IntoFunction::into_function of a function with one signature.
IntoFunction(f, sig) == DynamicFunction(<< >>, Single(f, FunctionInfo(sig)))

\* DynamicFunction::new with FunctionInfoType::Overloaded(infos): one
\* function that every signature maps to.
NewOverloaded(f, sigs) ==
    DynamicFunction(<< >>,
        Overloaded(<<f>>, [i \in 1..Len(sigs) |-> FunctionInfo(sigs[i])],
                   [k \in {sigs[i] : i \in 1..Len(sigs)} |-> 0]))

\* FunctionMap::is_overloaded
is_overloaded(m) == m.variant = "Overloaded"

\* FunctionInfo::arg_count of the info of a map that is not overloaded.
arg_count(m) == Len(m.info.sig)

\* The function found for a call, whichever index the map gives it.
GetFirst(functions, index) == functions[1]

\* &functions[*index], the indices of a Vec counted from 0.
GetAt(functions, index) == functions[index + 1]

\* FunctionMap::get: the function of a call with the arguments args, given
\* by their signature, or FunctionError::NoOverload.
get(m, args) ==
    IF m.variant = "Single" THEN [ok |-> TRUE, function |-> m.func]
    ELSE IF args \in DOMAIN m.indices
         THEN [ok |-> TRUE, function |-> GetAt(m.functions, m.indices[args])]
         ELSE [ok |-> FALSE, err |-> "NoOverload",
               expected |-> DOMAIN m.indices, received |-> args]

\* The count test of DynamicFunction::call.
CountMismatch(self, args) ==
    ~is_overloaded(self.function_map) /\ arg_count(self.function_map) # Len(args)

\* DynamicFunction::call: ArgCountMismatch, the error of get, or the call
\* of the function that get returns (invoked names it).
call(self, args) ==
    IF CountMismatch(self, args)
    THEN [ok |-> FALSE, err |-> "ArgCountMismatch",
          expected |-> arg_count(self.function_map), received |-> Len(args)]
    ELSE LET found == get(self.function_map, args)
         IN IF found.ok THEN [ok |-> TRUE, invoked |-> found.function]
            ELSE found

\* The argument lists of the calls, by signature.
ArgLists == Sigs \cup {<< >>}

\* DynamicFunction::try_with_overload: Ok(Self { name, function_map }) or
\* Err((Box::new(Self { name, function_map }), err)).
try_with_overload(self, function) ==
    LET name == self.name
    IN {IF r.ok
        THEN [ok |-> TRUE, func |-> DynamicFunction(name, r.map)]
        ELSE [ok |-> FALSE, func |-> DynamicFunction(name, r.map),
              signature |-> r.signature]
        : r \in merge(self.function_map, function.function_map)}

\* DynamicFunction::with_overload: the merged function, or a panic with the
\* error of the merge.
with_overload(self, function) ==
    LET name == self.name
    IN {IF r.ok
        THEN [panicked |-> FALSE, func |-> DynamicFunction(name, r.map)]
        ELSE [panicked |-> TRUE, signature |-> r.signature]
        : r \in merge(self.function_map, function.function_map)}

SingleFunctions == {IntoFunction(f, sig) : f \in Funcs, sig \in Sigs}

\* The functions passed as overloads: single functions, overloaded functions
\* made of two of them, and functions created with two signatures.
Overloads ==
    SingleFunctions
    \cup {DynamicFunction(<< >>, r.map) :
            r \in {x \in UNION {merge(IntoFunction("a", s).function_map,
                                         IntoFunction("b", t).function_map) :
                                   s \in Sigs, t \in Sigs} : x.ok}}
    \cup {NewOverloaded("b", <<(<<"i8">>), (<<"u8">>)>>),
          NewOverloaded("a", <<(<<"u8">>), (<<"i16">>)>>)}

(***************************************************************************)
(* tuple.rs: DynamicTuple and tuple_apply.                                 *)
(***************************************************************************)
\* Option::None and Option::Some(x).
None == << >>
Some(x) == <<x>>

\* DynamicTuple { name, represented_type, fields }
DynamicTuple(name, represented_type, fields) ==
    [name |-> name, represented_type |-> represented_type, fields |-> fields]

\* #[derive(Default)]: the empty name, no represented type, no field.
DynamicTupleDefault == DynamicTuple("", None, << >>)

\* A TypeInfo, by its kind and its type name.
TypeInfo(kind, type_name) == [kind |-> kind, type_name |-> type_name]

\* DynamicTuple::generate_name: "(" + the type names of the fields joined
\* by ", " + ")".
generate_name(t) == [t EXCEPT !.name = "(" \o Join(TypeNames(t.fields)) \o ")"]

\* DynamicTuple::insert_boxed
insert_boxed(t, value) ==
    generate_name([t EXCEPT !.represented_type = None,
                            !.fields = Append(t.fields, value)])

\* DynamicTuple::insert
insert(t, value) ==
    generate_name(insert_boxed([t EXCEPT !.represented_type = None], value))

\* DynamicTuple::set_represented_type; the assert panics for a TypeInfo
\* that is not TypeInfo::Tuple.
set_represented_type(t, represented_type) ==
    IF represented_type # None /\ represented_type[1].kind # "Tuple"
    THEN [panicked |-> TRUE]
    ELSE [panicked |-> FALSE,
          tuple |-> [t EXCEPT !.name = IF represented_type # None
                                       THEN represented_type[1].type_name
                                       ELSE t.name,
                              !.represented_type = represented_type]]

\* <DynamicTuple as Reflect>::type_name
type_name(t) ==
    IF t.represented_type # None THEN t.represented_type[1].type_name ELSE t.name

\* Reflect::apply of a leaf: the value of the same type overwrites it, a
\* value of another type panics.
value_apply(a, b) ==
    IF b.shape = "Value" /\ b.ty = a.ty
    THEN [panicked |-> FALSE, value |-> b]
    ELSE [panicked |-> TRUE]

RECURSIVE reflect_apply(_, _)

\* The loop of tuple_apply from the i-th field of b on: a.field_mut(i) is
\* None past the fields of a.
RECURSIVE ApplyFields(_, _, _)
ApplyFields(fields, items, i) ==
    IF i > Len(items) THEN [panicked |-> FALSE, fields |-> fields]
    ELSE IF i > Len(fields) THEN ApplyFields(fields, items, i + 1)
    ELSE LET r == reflect_apply(fields[i], items[i])
         IN IF r.panicked THEN [panicked |-> TRUE]
            ELSE ApplyFields([fields EXCEPT ![i] = r.value], items, i + 1)

\* A tuple_apply that takes a tuple of more fields for an error.
tuple_apply_strict(fields, b) ==
    IF b.shape = "Tuple" /\ Len(b.items) <= Len(fields)
    THEN ApplyFields(fields, b.items, 1)
    ELSE [panicked |-> TRUE]

\* tuple_apply(a, b), a given by its fields.
tuple_apply(fields, b) ==
    IF b.shape = "Tuple" THEN ApplyFields(fields, b.items, 1)
    ELSE [panicked |-> TRUE]

\* Reflect::apply of a leaf or of a tuple.
reflect_apply(a, b) ==
    IF a.shape = "Value" THEN value_apply(a, b)
    ELSE LET r == tuple_apply(a.items, b)
         IN IF r.panicked THEN r
            ELSE [panicked |-> FALSE, value |-> [a EXCEPT !.items = r.fields]]

\* The values inserted into a DynamicTuple.
FieldValues == {I32(0), I32(1), U32(0), MkTuple(<<I32(0), U32(0)>>)}

\* The represented types given to set_represented_type.
RepresentedTypes ==
    {None, Some(TypeInfo("Tuple", "(i32, u32)")), Some(TypeInfo("Tuple", "(u32, u32)")),
     Some(TypeInfo("Struct", "Foo"))}

\* The values applied to a DynamicTuple: tuples of zero to four fields and
\* values that are not tuples.
ApplyValues ==
    {MkTuple(<< >>), MkTuple(<<I32(1)>>), MkTuple(<<U32(1), I32(1)>>),
     MkTuple(<<I32(1), U32(1)>>), MkTuple(<<I32(1), I32(0), U32(1)>>),
     MkTuple(<<I32(1), U32(1), MkTuple(<<I32(1), U32(1), I32(1)>>), U32(1)>>),
     MkTuple(<<I32(1), I32(0), U32(1), I32(1), I32(1)>>),
     I32(1), MkArray("i32", <<I32(1)>>), MkTupleStruct("Bar", <<I32(1)>>)}

(***************************************************************************)
(* The run of run_diff_test: old.diff(&new), then the diff applied to old  *)
(* itself or to old.clone_value().                                         *)
(***************************************************************************)
NoDiff == [kind |-> "None"]
NoOut == [ok |-> FALSE, err |-> "None"]
NoFunction == [name |-> << >>]
NoResult == [op |-> "None"]

Init ==
    /\ \E p \in InputPairs : old = p[1] /\ new = p[2]
    /\ diff = NoDiff
    /\ given = NoDiff
    /\ base = old
    /\ out = NoOut
    /\ pc = "start"
    /\ func = NoFunction
    /\ result = NoResult
    /\ tuple = DynamicTupleDefault

\* let diff = old.diff(&new)
DoDiff ==
    /\ pc = "start"
    /\ diff' = Diff(old, new)
    /\ pc' = "diffed"
    /\ UNCHANGED <<old, new, given, base, out, func, result, tuple>>

\* diff.apply(base), for a diff that is Ok
DoApply ==
    /\ pc = "diffed"
    /\ ~IsErr(diff)
    /\ \E b \in {old, CloneValue(old)} :
          /\ base' = b
          /\ out' = Apply(diff, b)
    /\ given' = diff
    /\ pc' = "applied"
    /\ UNCHANGED <<old, new, diff, func, result, tuple>>

\* d.apply(b) for any base b, d being the diff or the same diff carrying
\* its value owned (ValueDiff::from(Box<dyn Reflect>))
DoApplyTo ==
    /\ pc = "diffed"
    /\ ~IsErr(diff)
    /\ \E b \in Bases, d \in {diff, ToOwned(diff)} :
          /\ given' = d
          /\ base' = b
          /\ out' = Apply(d, b)
    /\ pc' = "applied_to"
    /\ UNCHANGED <<old, new, diff, func, result, tuple>>

Next == DoDiff \/ DoApply \/ DoApplyTo

Spec == Init /\ [][Next]_vars

(***************************************************************************)
(* A DynamicFunction grown by overloads: a function made by               *)
(* into_function, named or not, then any sequence of try_with_overload    *)
(* and with_overload calls.                                               *)
(***************************************************************************)
\* DynamicFunction::with_name
with_name(f, name) == DynamicFunction(<<name>>, f.function_map)

InitFn ==
    /\ old = I32(0) /\ new = I32(0) /\ base = I32(0)
    /\ diff = NoDiff /\ given = NoDiff /\ out = NoOut
    /\ pc = "function"
    /\ func \in SingleFunctions \cup {with_name(f, "add") : f \in SingleFunctions}
    /\ result = NoResult
    /\ tuple = DynamicTupleDefault

\* func = func.try_with_overload(function): the function of the Ok or the
\* one handed back with the error
TryWithOverload ==
    /\ pc = "function"
    /\ \E function \in Overloads :
          \E r \in try_with_overload(func, function) :
             /\ result' = [op |-> "try_with_overload", self |-> func,
                           function |-> function, returned |-> r]
             /\ func' = r.func
    /\ UNCHANGED <<old, new, diff, given, base, out, pc, tuple>>

\* func = func.with_overload(function), which panics on an error
WithOverload ==
    /\ pc = "function"
    /\ \E function \in Overloads :
          \E r \in with_overload(func, function) :
             /\ result' = [op |-> "with_overload", self |-> func,
                           function |-> function, returned |-> r]
             /\ IF r.panicked
                THEN pc' = "panicked" /\ func' = func
                ELSE pc' = pc /\ func' = r.func
    /\ UNCHANGED <<old, new, diff, given, base, out, tuple>>

\* func.call(args)
Call ==
    /\ pc = "function"
    /\ \E args \in ArgLists :
          result' = [op |-> "call", self |-> func, args |-> args,
                     returned |-> call(func, args)]
    /\ UNCHANGED <<old, new, diff, given, base, out, pc, func, tuple>>

NextFn == TryWithOverload \/ WithOverload \/ Call

SpecFn == InitFn /\ [][NextFn]_vars

(***************************************************************************)
(* A DynamicTuple: DynamicTuple::default(), then any sequence of insert,   *)
(* insert_boxed, set_represented_type and apply calls.                     *)
(***************************************************************************)
InitTuple ==
    /\ old = I32(0) /\ new = I32(0) /\ base = I32(0)
    /\ diff = NoDiff /\ given = NoDiff /\ out = NoOut
    /\ func = NoFunction
    /\ pc = "tuple"
    /\ tuple = DynamicTupleDefault
    /\ result = NoResult

\* tuple.insert(value)
Insert ==
    /\ pc = "tuple"
    /\ Len(tuple.fields) < MaxLen
    /\ \E value \in FieldValues :
          /\ tuple' = insert(tuple, value)
          /\ result' = [op |-> "insert", self |-> tuple, value |-> value]
    /\ UNCHANGED <<old, new, diff, given, base, out, pc, func>>

\* tuple.insert_boxed(Box::new(value))
InsertBoxed ==
    /\ pc = "tuple"
    /\ Len(tuple.fields) < MaxLen
    /\ \E value \in FieldValues :
          /\ tuple' = insert_boxed(tuple, value)
          /\ result' = [op |-> "insert_boxed", self |-> tuple, value |-> value]
    /\ UNCHANGED <<old, new, diff, given, base, out, pc, func>>

\* tuple.set_represented_type(represented_type)
SetRepresentedType ==
    /\ pc = "tuple"
    /\ \E represented_type \in RepresentedTypes :
          LET r == set_represented_type(tuple, represented_type)
          IN /\ result' = [op |-> "set_represented_type", self |-> tuple,
                           represented_type |-> represented_type, returned |-> r]
             /\ IF r.panicked
                THEN pc' = "panicked" /\ tuple' = tuple
                ELSE pc' = pc /\ tuple' = r.tuple
    /\ UNCHANGED <<old, new, diff, given, base, out, func>>

\* tuple_apply(&mut tuple, &b)
TupleApply ==
    /\ pc = "tuple"
    /\ \E b \in ApplyValues :
          LET r == tuple_apply(tuple.fields, b)
          IN /\ result' = [op |-> "tuple_apply", self |-> tuple, b |-> b,
                           returned |-> r]
             /\ IF r.panicked
                THEN pc' = "panicked" /\ tuple' = tuple
                ELSE pc' = pc /\ tuple' = [tuple EXCEPT !.fields = r.fields]
    /\ UNCHANGED <<old, new, diff, given, base, out, func>>

NextTuple == Insert \/ InsertBoxed \/ SetRepresentedType \/ TupleApply

SpecTuple == InitTuple /\ [][NextTuple]_vars

(***************************************************************************)
(* apply_list_diff on any list and any edit script: a DiffedList holding   *)
(* a script sorted by index, applied to a SmallVec<[i32; 4]>.              *)
(***************************************************************************)
\* DiffedList { type_name, changes, total_insertions, total_deletions }
DiffedList(ty, changes) ==
    [kind |-> "Modified", dtype |-> "List", ekind |-> "", ty |-> ty,
     changes |-> changes,
     total_insertions |-> Len(SelectSeq(changes, IsInserted)),
     total_deletions |-> Len(SelectSeq(changes, IsDeleted))]

\* The edit scripts of up to three edits, sorted by index.
Scripts ==
    LET edits == {ListDeleted(i) : i \in 0..1}
                 \cup {ListInserted(i, I32(v)) : i \in 0..2, v \in {7, 8}}
    IN {sc \in SeqsUpTo(edits, 3) :
          \A i \in 1..Len(sc) : \A j \in (i + 1)..Len(sc) : sc[i].index <= sc[j].index}

ScriptBases == {IntList(<< >>), IntList(<<0>>), IntList(<<0, 1>>)}

InitList ==
    /\ old = I32(0) /\ new = I32(0) /\ base = I32(0)
    /\ diff = NoDiff /\ given = NoDiff /\ out = NoOut
    /\ func = NoFunction /\ result = NoResult /\ tuple = DynamicTupleDefault
    /\ pc = "list"

\* Diff::Modified(DiffType::List(d)).apply(b)
ApplyListDiff ==
    /\ pc = "list"
    /\ \E b \in ScriptBases, sc \in Scripts :
          LET d == DiffedList(TypeName(b), sc)
          IN /\ given' = d
             /\ base' = b
             /\ out' = Apply(d, b)
    /\ pc' = "applied_script"
    /\ UNCHANGED <<old, new, diff, func, result, tuple>>

NextList == ApplyListDiff

SpecList == InitList /\ [][NextList]_vars

(***************************************************************************)
(* Properties of diff and apply                                            *)
(***************************************************************************)
\* Every leaf of v supports reflect_partial_eq.
RECURSIVE EqSupported(_)
EqSupported(v) ==
    CASE v.shape = "Value" -> v.ty # "Opaque"
      [] v.shape = "Map" ->
            /\ \A i \in 1..Len(v.keys) : EqSupported(v.keys[i])
            /\ \A i \in 1..Len(v.items) : EqSupported(v.items[i])
      [] OTHER -> \A i \in 1..Len(v.items) : EqSupported(v.items[i])

\* Every list inside v holds elements of its element type only.
RECURSIVE WellTyped(_)
WellTyped(v) ==
    CASE v.shape = "Value" -> TRUE
      [] v.shape = "List" ->
            \A i \in 1..Len(v.items) :
                TypeName(v.items[i]) = v.elem /\ WellTyped(v.items[i])
      [] OTHER -> \A i \in 1..Len(v.items) : WellTyped(v.items[i])

Diffed == pc # "start"

SameShape == old.shape = new.shape

\* C1: whenever old.diff(new) is Ok(d), d.apply(base) is Ok(out) and
\* out.reflect_partial_eq(new) is Some(true), for base = old and for
\* base = old.clone_value().  Stated for the values whose leaves support
\* equality, for which Some(true) is possible at all, and whose lists hold
\* elements of their element type.
C1_ApplyInvertsDiff ==
    ( /\ pc = "applied" /\ EqSupported(old) /\ EqSupported(new)
      /\ WellTyped(old) /\ WellTyped(new) )
        => (out.ok /\ ReflectPartialEq(out.value, new) = "true")

\* C2: v.diff(v) is Ok(NoChange) for every value v, of any shape, whose
\* leaves support equality.
C2_DiffIsReflexive ==
    (Diffed /\ old = new /\ EqSupported(old)) => diff = NoChange

C2_Witness ==
    /\ pc = "diffed" /\ old = new /\ diff = NoChange
    /\ old.shape = "Tuple" /\ Len(old.items) = 2 /\ old.items[2].shape = "List"

\* Length of the longest common subsequence of xs[1..i] and ys[1..j], two
\* elements being equal when their diff is NoChange.
RECURSIVE LCS(_, _, _, _)
LCS(xs, ys, i, j) ==
    IF i = 0 \/ j = 0 THEN 0
    ELSE IF Diff(xs[i], ys[j]) = NoChange THEN 1 + LCS(xs, ys, i - 1, j - 1)
    ELSE LET a == LCS(xs, ys, i - 1, j)
             b == LCS(xs, ys, i, j - 1)
         IN IF a >= b THEN a ELSE b

ListPair == Diffed /\ old.shape = "List" /\ new.shape = "List" /\ old.ty = new.ty

MinEdits ==
    Len(old.items) + Len(new.items)
        - 2 * LCS(old.items, new.items, Len(old.items), Len(new.items))

\* C3: for two lists of the same type whose diff is Ok, the edit script has
\* exactly len(old) + len(new) - 2 * LCS(old, new) edits; the diff is
\* NoChange when that number is 0 and Modified(List(script)) otherwise.
C3_ListScriptIsMinimal ==
    (ListPair /\ ~IsErr(diff)) =>
        IF MinEdits = 0 THEN diff = NoChange
        ELSE /\ diff.kind = "Modified" /\ diff.dtype = "List"
             /\ Len(diff.changes) = MinEdits

C3_Witness ==
    /\ ListPair /\ diff.kind = "Modified"
    /\ Len(old.items) = 2 /\ Len(new.items) = 2
    /\ Len(diff.changes) = 2

\* The list that the script describes: before the element at each index of
\* olds come the values inserted at that index, in script order, and the
\* element stays unless the script deletes it.
RECURSIVE Replay(_, _, _)
Replay(olds, changes, idx) ==
    IF idx > Len(olds) THEN << >>
    ELSE LET InsHere(e) == e.op = "Inserted" /\ e.index = idx
             ins == SelectSeq(changes, InsHere)
             deleted == \E i \in 1..Len(changes) :
                            changes[i].op = "Deleted" /\ changes[i].index = idx
             kept == IF idx < Len(olds) /\ ~deleted THEN <<olds[idx + 1]>> ELSE << >>
         IN [i \in 1..Len(ins) |-> ins[i].value] \o kept
                \o Replay(olds, changes, idx + 1)

ScriptOrdered(olds, news, changes) ==
    /\ \A i \in 1..Len(changes) :
          /\ changes[i].index >= 0
          /\ changes[i].index <= Len(olds)
          /\ changes[i].op = "Deleted" => changes[i].index < Len(olds)
    /\ \A i \in 1..Len(changes), j \in 1..Len(changes) :
          i < j =>
             /\ changes[i].index <= changes[j].index
             /\ (changes[i].op = "Deleted" /\ changes[j].op = "Deleted")
                    => changes[i].index # changes[j].index
             /\ ( /\ changes[i].op = "Inserted" /\ changes[j].op = "Inserted"
                  /\ changes[i].index = changes[j].index )
                    => \A k \in i..j : changes[k].op = "Inserted"
    /\ Replay(olds, changes, 0) = news

\* C4: in a list edit script the indices are positions in old and never
\* decrease, no old index is deleted twice, the insertions at one anchor are
\* contiguous and in the order of their values in new; the three documented
\* scripts are produced exactly.
C4_ListScriptOrder ==
    /\ (ListPair /\ diff.kind = "Modified")
          => ScriptOrdered(old.items, new.items, diff.changes)
    /\ (Diffed /\ old = DocOld1 /\ new = DocNew1)
          => /\ diff.kind = "Modified"
             /\ diff.changes =
                   <<ListDeleted(1), ListInserted(2, I32(0)), ListInserted(3, I32(6)),
                     ListInserted(3, I32(8)), ListDeleted(4), ListInserted(5, I32(7))>>
    /\ (Diffed /\ old = DocOld2 /\ new = DocNew2)
          => /\ diff.kind = "Modified"
             /\ diff.changes =
                   <<ListInserted(0, I32(9)), ListDeleted(1), ListInserted(2, I32(7)),
                     ListInserted(2, I32(6))>>
    /\ (Diffed /\ old = DocOld3 /\ new = DocNew3)
          => /\ diff.kind = "Modified"
             /\ diff.changes =
                   <<ListInserted(0, I32(1)), ListInserted(0, I32(2)),
                     ListInserted(0, I32(3))>>

C4_Witness ==
    /\ pc = "diffed" /\ old = DocOld1 /\ new = DocNew1
    /\ diff.kind = "Modified" /\ Len(diff.changes) = 6

\* The key k is a key of the map m.
HasKey(m, k) == \E i \in 1..Len(m.keys) : m.keys[i] = k

ValueOf(m, k) == m.items[CHOOSE i \in 1..Len(m.keys) : m.keys[i] = k]

ExpectedMapEdits(o, n) ==
    {MapDeleted(o.keys[i]) : i \in {j \in 1..Len(o.keys) : ~HasKey(n, o.keys[j])}}
    \cup {MapModified(o.keys[i], Diff(o.items[i], ValueOf(n, o.keys[i]))) :
            i \in {j \in 1..Len(o.keys) :
                     /\ HasKey(n, o.keys[j])
                     /\ Diff(o.items[j], ValueOf(n, o.keys[j])) # NoChange}}
    \cup {MapInserted(n.keys[i], n.items[i]) :
            i \in {j \in 1..Len(n.keys) : ~HasKey(o, n.keys[j])}}

MapPair == Diffed /\ old.shape = "Map" /\ new.shape = "Map" /\ old.ty = new.ty

\* C5: for two maps of the same type whose diff is Ok, the edit list holds
\* exactly Deleted(k) for the keys only in old, Modified(k, d) for the keys
\* in both whose value diff d is not NoChange, and Inserted(k, new[k]) for
\* the keys only in new; the diff is NoChange iff that list is empty.
C5_MapEdits ==
    (MapPair /\ ~IsErr(diff)) =>
        LET expected == ExpectedMapEdits(old, new)
        IN IF expected = {} THEN diff = NoChange
           ELSE /\ diff.kind = "Modified" /\ diff.dtype = "Map"
                /\ {diff.changes[i] : i \in 1..Len(diff.changes)} = expected
                /\ Len(diff.changes) = Cardinality(expected)

C5_Witness ==
    /\ MapPair /\ diff.kind = "Modified"
    /\ \E i \in 1..Len(diff.changes) : diff.changes[i].op = "Deleted"
    /\ \E i \in 1..Len(diff.changes) : diff.changes[i].op = "Modified"
    /\ \E i \in 1..Len(diff.changes) : diff.changes[i].op = "Inserted"

EnumPair == Diffed /\ old.shape = "Enum" /\ new.shape = "Enum" /\ old.ty = new.ty

\* C6: for two enums of the same type whose variant name or variant kind
\* differs, the diff is Modified(Enum(Swapped(new))) carrying the whole new
\* value; Replaced is returned only when the enum types differ.
C6_VariantSwapIsSwapped ==
    (EnumPair /\ (old.variant # new.variant \/ old.vkind # new.vkind))
        => /\ diff.kind = "Modified"
           /\ diff.dtype = "Enum"
           /\ diff.ekind = "Swapped"
           /\ diff.value = new

Positional == {"Tuple", "Array", "TupleStruct"}

PositionalPair == Diffed /\ old.shape \in Positional /\ SameShape

\* The position-wise diffs of two sequences of fields of equal length.
PairDiff(i) == Diff(old.items[i], new.items[i])

\* C7: for two tuples, arrays or tuple structs of equal type name and equal
\* element count n whose position-wise diffs are all Ok, the diff is NoChange
\* iff every position-wise diff is NoChange, and otherwise Modified with
\* exactly n sub-diffs, the i-th being diff(old[i], new[i]), NoChange
\* entries included.
C7_PositionalDiff ==
    ( /\ PositionalPair /\ old.ty = new.ty /\ Len(old.items) = Len(new.items)
      /\ \A i \in 1..Len(old.items) : ~IsErr(PairDiff(i)) )
        => IF \A i \in 1..Len(old.items) : PairDiff(i) = NoChange
           THEN diff = NoChange
           ELSE /\ diff.kind = "Modified" /\ diff.dtype = old.shape
                /\ Len(diff.fields) = Len(old.items)
                /\ \A i \in 1..Len(old.items) : diff.fields[i] = PairDiff(i)

C7_Witness ==
    /\ PositionalPair /\ old.shape = "Tuple" /\ Len(old.items) = 3
    /\ diff.kind = "Modified"
    /\ diff.fields = <<NoChange, ModifiedValue(I32(1)), NoChange>>

\* C8: for two values of the same shape whose type names differ, the diff is
\* Ok(Replaced(new)) with the whole new value, whatever their contents.
C8_TypeChangeIsReplaced ==
    (Diffed /\ SameShape /\ old.ty # new.ty) => diff = Replaced(new)

C8_Witness ==
    /\ Diffed /\ old.shape = "Struct" /\ new.shape = "Struct"
    /\ old.ty = "Foo" /\ new.ty = "Bar"
    /\ old.names = new.names /\ old.items = new.items
    /\ diff = Replaced(new)

\* C9: for tuples, arrays and tuple structs of different element counts the
\* diff is Ok(Replaced(new)); no element is compared, so no element diff
\* error surfaces.
C9_CountChangeIsReplaced ==
    (PositionalPair /\ Len(old.items) # Len(new.items)) => diff = Replaced(new)

\* Same type name, different counts, and a pair of elements whose own diff
\* is an error.
C9_Witness ==
    /\ PositionalPair /\ old.shape = "TupleStruct" /\ old.ty = new.ty
    /\ Len(old.items) = 2 /\ Len(new.items) = 3
    /\ IsErr(PairDiff(2))
    /\ diff = Replaced(new)

SameVariant == EnumPair /\ old.variant = new.variant /\ old.vkind = new.vkind

\* The diff of the field of old called name against the same-named field of new.
FieldDiff(name) ==
    Diff(old.items[FieldIndex(old.names, name)], new.items[FieldIndex(new.names, name)])

\* The positions that both old and new have a field at.
CommonPositions ==
    {i \in 1..Len(old.items) : i <= Len(new.items)}

StructPair == Diffed /\ old.shape = "Struct" /\ new.shape = "Struct" /\ old.ty = new.ty

\* The diff of old's i-th field against the same-named field of new.
StructFieldDiff(i) ==
    Diff(old.items[i], new.items[FieldIndex(new.names, old.names[i])])

\* C11: a Modified(Struct) diff holds one sub-diff for every field of old,
\* NoChange ones included: field_iter() yields the (name, diff) pairs in
\* old's declaration order, field_at(i) is the diff of old's i-th field and
\* field_len() is old's field count.
C11_DiffedStructFields ==
    (StructPair /\ diff.kind = "Modified") =>
        /\ diff.dtype = "Struct"
        /\ field_len(diff) = Len(old.items)
        /\ field_iter(diff) =
              [i \in 1..Len(old.items) |-> <<old.names[i], StructFieldDiff(i)>>]
        /\ \A i \in 1..Len(old.items) : field_at(diff, i - 1) = <<StructFieldDiff(i)>>
        /\ field_at(diff, Len(old.items)) = << >>

C11_Witness ==
    /\ StructPair /\ diff.kind = "Modified"
    /\ field_iter(diff) = << <<"a", NoChange>>, <<"b", ModifiedValue(I32(1))>> >>

\* A diff has been applied: to old or its clone (DoApply) or to any base
\* (DoApplyTo).
Applied == pc \in {"applied", "applied_to"}

\* C12: Diff::NoChange.apply(base) is Ok(base), the very value passed in,
\* for a base of any shape and type; it is never an error.
C12_NoChangeReturnsBase ==
    (Applied /\ given = NoChange) => (out.ok /\ out.value = base)

C12_Witness ==
    /\ pc = "applied_to" /\ given = NoChange
    /\ base.shape = "Map" /\ old.shape = "Enum"
    /\ out.ok /\ out.value = base

\* C13: Diff::Replaced(v).apply(base) is Ok of the carried value, v itself
\* when owned and v.clone_value() when borrowed, for every base, whatever
\* its shape or type; it is never an error.
C13_ReplacedReturnsValue ==
    (Applied /\ given.kind = "Replaced") =>
        /\ out.ok
        /\ given.owned => out.value = given.value
        /\ ~given.owned => out.value = CloneValue(given.value)

C13_Witness ==
    /\ pc = "applied_to" /\ given.kind = "Replaced" /\ given.owned
    /\ given.value.shape = "Struct" /\ ~given.value.dyn
    /\ base.shape = "List"
    /\ out.ok /\ out.value = given.value

\* The routine Diff::apply hands a Modified diff to when the base has the
\* diff's shape.
ShapeApply(b, d) ==
    CASE d.dtype = "Value" -> Ok(TakeValue(d))
      [] d.dtype \in Positional -> apply_positional_diff(b, d)
      [] d.dtype = "List" -> apply_list_diff(b, d)
      [] d.dtype = "Map" -> apply_map_diff(b, d)
      [] d.dtype = "Struct" -> apply_struct_diff(b, d)
      [] d.dtype = "Enum" -> apply_enum_diff(b, d)

\* C14: Diff::Modified(delta).apply(base) runs the routine of delta's shape
\* exactly when base has that shape, and otherwise is
\* Err(DiffApplyError::Expected<shape of delta>), for all 8 x 8
\* combinations of base shape and delta tag.
C14_ApplyDispatch ==
    (Applied /\ given.kind = "Modified") =>
        IF base.shape = given.dtype
        THEN out = ShapeApply(base, given)
        ELSE ~out.ok /\ out.err = "Expected" \o given.dtype

\* Every combination of base shape and delta tag occurs.
C14_Combination(b, t) ==
    /\ pc = "applied_to" /\ given.kind = "Modified"
    /\ base.shape = b /\ given.dtype = t

C14_Witness ==
    /\ C14_Combination("List", "Array")
    /\ ~out.ok /\ out.err = "ExpectedArray"

ListApplied ==
    /\ Applied /\ given.kind = "Modified" /\ given.dtype = "List"
    /\ base.shape = "List"

Convertible(b, value) == b.dyn \/ TypeName(value) = b.elem

\* The walk over items from index idx on: at each index the values inserted
\* there, in script order, then the element unless the script deletes it;
\* after the last element the values of the insertions anchored at or past
\* the end, in script order.
RECURSIVE ExpectedWalk(_, _, _)
ExpectedWalk(items, changes, idx) ==
    LET InsHere(e) == e.op = "Inserted" /\ e.index = idx
        InsPast(e) == e.op = "Inserted" /\ e.index >= Len(items)
        Values(es) == [i \in 1..Len(es) |-> es[i].value]
        deleted == \E i \in 1..Len(changes) :
                       changes[i].op = "Deleted" /\ changes[i].index = idx
    IN IF idx >= Len(items) THEN Values(SelectSeq(changes, InsPast))
       ELSE Values(SelectSeq(changes, InsHere))
               \o (IF deleted THEN << >> ELSE <<items[idx + 1]>>)
               \o ExpectedWalk(items, changes, idx + 1)

\* C15: apply_list_diff(base, script), the script sorted by old index and
\* its inserted values convertible, returns the list built by the walk: at
\* each index i of base the values of the Inserted(i, v) edits in script
\* order, then base[i] unless a Deleted(i) edit is present, and after the
\* walk the values of all insertions anchored at or past len(base).
C15_ListApplyWalk ==
    ( /\ ListApplied /\ base.ty = given.ty
      /\ \A i \in 1..Len(given.changes) :
            given.changes[i].op = "Inserted"
                => Convertible(base, given.changes[i].value) )
        => /\ out.ok
           /\ out.value.items = ExpectedWalk(base.items, given.changes, 0)

\* C16: apply_list_diff returns Err(DiffApplyError::TypeMismatch), and no
\* list, when the diff's type name differs from the base list's, and when an
\* inserted value that the walk reaches cannot be converted to the list's
\* element type; an Ok result never holds an unconverted value.
C16_ListApplyTypeMismatch ==
    ListApplied =>
        /\ base.ty # given.ty => (~out.ok /\ out.err = "TypeMismatch")
        /\ ( /\ pc = "applied" /\ base.ty = given.ty
             /\ \E i \in 1..Len(given.changes) :
                   /\ given.changes[i].op = "Inserted"
                   /\ ~Convertible(base, given.changes[i].value) )
              => (~out.ok /\ out.err = "TypeMismatch")
        /\ (out.ok /\ ~base.dyn)
              => \A i \in 1..Len(out.value.items) :
                    TypeName(out.value.items[i]) = base.elem

C16_Witness ==
    /\ ListApplied /\ pc = "applied" /\ ~base.dyn /\ base.ty = given.ty
    /\ base.elem = "i32"
    /\ \E i \in 1..Len(given.changes) :
          /\ given.changes[i].op = "Inserted"
          /\ TypeName(given.changes[i].value) = "u32"
    /\ ~out.ok /\ out.err = "TypeMismatch"

Containers == {"Tuple", "Array", "Map", "TupleStruct", "Struct", "Enum"}

\* C17: when old is a tuple, array, map, tuple struct, struct or enum and
\* new has any other shape, the diff is Err(DiffError::Expected<shape of
\* old>), not Replaced: the shape is checked before type name and count.
C17_ShapeMismatchIsError ==
    (Diffed /\ old.shape \in Containers /\ new.shape # old.shape)
        => (diff.kind = "Err" /\ diff.err = "Expected" \o old.shape)

C17_Witness ==
    /\ Diffed /\ old.shape = "Struct" /\ new.shape = "TupleStruct"
    /\ diff.kind = "Err" /\ diff.err = "ExpectedStruct"

\* Two structs of one type name, or two enums of one type in the same
\* struct variant.
NamedPair == StructPair \/ (SameVariant /\ old.vkind = "Struct")

\* The positions of the fields of old that new has no same-named field for.
MissingFields == {i \in 1..Len(old.names) : FieldIndex(new.names, old.names[i]) = 0}

\* The fields of old before the first missing one whose own diff fails.
FailedBefore == {j \in 1..Len(old.names) : j < Min(MissingFields) /\ IsErr(StructFieldDiff(j))}

\* C18: when some field of old has no same-named field in new, the diff of
\* two structs of one type name (or two enums in the same struct variant)
\* is Err(DiffError::MissingField), no partial diff, unless a field of old
\* before the missing one fails to diff: then it is that earlier error.
C18_MissingField ==
    (NamedPair /\ MissingFields # {}) =>
        IF FailedBefore = {} THEN diff = Err("MissingField")
        ELSE diff = StructFieldDiff(Min(FailedBefore))

C18_Witness ==
    /\ SameVariant /\ old.vkind = "Struct" /\ ~old.dyn /\ new.dyn
    /\ old.names = <<"x", "y">> /\ new.names = <<"y">>
    /\ diff = Err("MissingField")


(***************************************************************************)
(* Properties of FunctionMap::merge and of the overloads of a              *)
(* DynamicFunction                                                         *)
(***************************************************************************)
Functions(m) == IF m.variant = "Single" THEN <<m.func>> ELSE m.functions

Infos(m) == IF m.variant = "Single" THEN <<m.info>> ELSE m.infos

Signatures(m) == IF m.variant = "Single" THEN {m.info.sig} ELSE DOMAIN m.indices

IndexOf(m, sig) == IF m.variant = "Single" THEN 0 ELSE m.indices[sig]

Overloading == result.op \in {"try_with_overload", "with_overload"}

MapA == result.self.function_map

MapB == result.function.function_map

CommonSignatures == Signatures(MapA) \cap Signatures(MapB)

Merged ==
    IF result.op = "try_with_overload" THEN result.returned.ok
    ELSE ~result.returned.panicked

\* C19: when the maps A and B share no argument signature, A.merge(B) is Ok
\* of an Overloaded map, whichever variants A and B are: its functions are
\* those of A followed by those of B, its infos those of A followed by those
\* of B, and its index map sends each signature of A to its index in A and
\* each signature of B to the number of functions of A plus its index in B.
C19_MergeDisjoint ==
    (Overloading /\ CommonSignatures = {}) =>
        /\ Merged
        /\ LET m == result.returned.func.function_map
           IN /\ m.variant = "Overloaded"
              /\ m.functions = Functions(MapA) \o Functions(MapB)
              /\ m.infos = Infos(MapA) \o Infos(MapB)
              /\ DOMAIN m.indices = Signatures(MapA) \cup Signatures(MapB)
              /\ \A sig \in Signatures(MapA) : m.indices[sig] = IndexOf(MapA, sig)
              /\ \A sig \in Signatures(MapB) :
                    m.indices[sig] = Len(Functions(MapA)) + IndexOf(MapB, sig)

C19_Witness ==
    /\ Overloading /\ CommonSignatures = {}
    /\ MapA.variant = "Overloaded" /\ Len(MapA.functions) = 2
    /\ MapB.variant = "Overloaded" /\ Len(MapB.functions) = 2
    /\ Merged

Called == result.op = "call"

\* C21: with_overload(F) with F of a signature that the function holds
\* already overwrites the function of that signature: the returned function
\* dispatches the calls with that signature to F.
C21_OverloadOverwrites ==
    (result.op = "with_overload" /\ MapB.variant = "Single"
        /\ CommonSignatures # {}) =>
        /\ ~result.returned.panicked
        /\ \A sig \in CommonSignatures :
              LET r == call(result.returned.func, sig)
              IN r.ok /\ r.invoked = MapB.func

\* C22: call on a function that is not overloaded with another number of
\* arguments than its info has is Err(ArgCountMismatch { expected, received })
\* and invokes nothing; call on an overloaded function whose index map has
\* no entry for the signature of the arguments is Err(NoOverload { expected,
\* received }) with every registered signature in expected; any other call
\* invokes exactly the function stored for the signature.
C22_CallDispatch ==
    Called =>
        LET m == result.self.function_map
            r == result.returned
        IN IF m.variant = "Single"
           THEN IF Len(m.info.sig) # Len(result.args)
                THEN /\ ~r.ok /\ r.err = "ArgCountMismatch"
                     /\ r.expected = Len(m.info.sig)
                     /\ r.received = Len(result.args)
                ELSE r.ok /\ r.invoked = m.func
           ELSE IF result.args \notin DOMAIN m.indices
                THEN /\ ~r.ok /\ r.err = "NoOverload"
                     /\ r.expected = DOMAIN m.indices
                     /\ r.received = result.args
                ELSE r.ok /\ r.invoked = m.functions[m.indices[result.args] + 1]

C22_Witness ==
    /\ Called
    /\ result.self.function_map.variant = "Overloaded"
    /\ Len(result.self.function_map.functions) = 3
    /\ result.returned.ok
    /\ result.returned.invoked = "b"
    /\ result.self.function_map.functions[1] = "a"


(***************************************************************************)
(* Properties of DynamicTuple and tuple_apply                              *)
(***************************************************************************)
SynthesizedName(fields) == "(" \o Join(TypeNames(fields)) \o ")"

Inserted == result.op \in {"insert", "insert_boxed"}

\* C23: after any sequence of insert, insert_boxed and set_represented_type
\* calls from DynamicTuple::default(), type_name() is the name of the
\* represented type when one is set and otherwise the name synthesized from
\* the current fields, "(" + their type names joined by ", " + ")"; every
\* insertion clears the represented type.
C23_TupleName ==
    (pc = "tuple" /\ result.op \in {"insert", "insert_boxed", "set_represented_type"}) =>
        /\ type_name(tuple) =
              IF tuple.represented_type # None
              THEN tuple.represented_type[1].type_name
              ELSE SynthesizedName(tuple.fields)
        /\ Inserted => tuple.represented_type = None

TupleApplied == result.op = "tuple_apply"

MinLen(a, b) == IF Len(a) <= Len(b) THEN Len(a) ELSE Len(b)

\* C24: tuple_apply(a, b) with b a tuple applies the i-th field of b onto
\* the i-th field of a for every i below the smaller field count and changes
\* nothing else: the field count of a and its fields past the fields of b
\* are unchanged, the fields of b past the fields of a are ignored without
\* an error; with b not a tuple it panics.
C24_TupleApply ==
    TupleApplied =>
        LET a == result.self.fields
            b == result.b
            r == result.returned
        IN IF b.shape # "Tuple" THEN r.panicked /\ pc = "panicked"
           ELSE LET n == MinLen(a, b.items)
                    each == [i \in 1..n |-> reflect_apply(a[i], b.items[i])]
                IN IF \E i \in 1..n : each[i].panicked THEN r.panicked
                   ELSE /\ ~r.panicked
                        /\ Len(r.fields) = Len(a)
                        /\ \A i \in 1..n : r.fields[i] = each[i].value
                        /\ \A i \in (n + 1)..Len(a) : r.fields[i] = a[i]
                        /\ tuple = [result.self EXCEPT !.fields = r.fields]

C24_Witness ==
    /\ TupleApplied
    /\ result.b.shape = "Tuple"
    /\ Len(result.b.items) > Len(result.self.fields)
    /\ Len(result.self.fields) = 2
    /\ ~result.returned.panicked
    /\ result.returned.fields # result.self.fields


(***************************************************************************)
(* Further properties of diff_map, diff_struct and apply_list_diff         *)
(***************************************************************************)
MapDiffed == MapPair /\ diff.kind = "Modified" /\ diff.dtype = "Map"

\* C25: in the edit list of diff_map every Deleted and Modified edit comes
\* before every Inserted edit: no Inserted edit is followed by a Deleted or
\* a Modified one.
C25_MapEditOrder ==
    MapDiffed =>
        \A i \in 1..Len(diff.changes) : \A j \in (i + 1)..Len(diff.changes) :
            ~(diff.changes[i].op = "Inserted"
                /\ diff.changes[j].op \in {"Deleted", "Modified"})

C25_Witness ==
    /\ MapDiffed
    /\ Len(diff.changes) = 3
    /\ diff.changes[1].op \in {"Deleted", "Modified"}
    /\ diff.changes[2].op \in {"Deleted", "Modified"}
    /\ diff.changes[3].op = "Inserted"

Reorder(changes, p) == [i \in 1..Len(changes) |-> changes[p[i]]]

Entries(m) == {<<m.keys[i], m.items[i]>> : i \in 1..Len(m.keys)}

\* C26: in the edit list of diff_map no key occurs in two edits (the keys
\* are pairwise distinct under key equality), so the list has at most as
\* many edits as old and new have keys together, and the edits applied to
\* old in any order give the same map.
C26_MapEditKeys ==
    MapDiffed =>
        LET changes == diff.changes
            n == Len(changes)
            r == ApplyMapEdits(old, changes)
        IN /\ \A i \in 1..n : \A j \in 1..n :
                 i # j => ReflectPartialEq(changes[i].key, changes[j].key) # "true"
           /\ n <= Cardinality({old.keys[i] : i \in 1..Len(old.keys)}
                               \cup {new.keys[i] : i \in 1..Len(new.keys)})
           /\ \A p \in Permutations(1..n) :
                 LET q == ApplyMapEdits(old, Reorder(changes, p))
                 IN /\ q.ok = r.ok
                    /\ r.ok => Entries(q.value) = Entries(r.value)

C26_Witness ==
    /\ MapDiffed
    /\ Len(old.keys) = 2 /\ Len(new.keys) = 2
    /\ Len(diff.changes) = 3
    /\ ApplyMapEdits(old, diff.changes).ok


FieldNames(v) == {v.names[i] : i \in 1..Len(v.names)}

\* C27: for two structs of equal type name, dynamic structs included,
\* diff_struct returns NoChange only if new has exactly the field names of
\* old and every pair of fields of the same name diffs to NoChange: a field
\* that new has and old has not is never silently ignored.
C27_StructNoChange ==
    (StructPair /\ diff = NoChange) =>
        /\ FieldNames(new) = FieldNames(old)
        /\ \A i \in 1..Len(old.names) :
              Diff(old.items[i], new.items[FieldIndex(new.names, old.names[i])]) = NoChange


ScriptApplied == pc = "applied_script"

\* The items left when the elements at the deleted indices are taken out.
RECURSIVE KeptItems(_, _, _)
KeptItems(items, changes, idx) ==
    IF idx >= Len(items) THEN << >>
    ELSE (IF \E i \in 1..Len(changes) :
                changes[i].op = "Deleted" /\ changes[i].index = idx
          THEN << >> ELSE <<items[idx + 1]>>)
         \o KeptItems(items, changes, idx + 1)

\* sub is a subsequence of sq: its elements occur in sq in the same order.
RECURSIVE IsSubsequence(_, _)
IsSubsequence(sub, sq) ==
    IF sub = << >> THEN TRUE
    ELSE IF sq = << >> THEN FALSE
    ELSE IF Head(sub) = Head(sq) THEN IsSubsequence(Tail(sub), Tail(sq))
    ELSE IsSubsequence(sub, Tail(sq))

\* Each Deleted index is below len(base) and occurs at most once.
DeletionsInRange ==
    \A i \in 1..Len(given.changes) :
        given.changes[i].op = "Deleted" =>
            /\ given.changes[i].index < Len(base.items)
            /\ \A j \in 1..Len(given.changes) :
                  (j # i /\ given.changes[j].op = "Deleted")
                     => given.changes[j].index # given.changes[i].index

Resolve(m, sig) == Functions(m)[IndexOf(m, sig) + 1]

\* C29: in every Overloaded map reached by successful merges every index of
\* the index map is below functions.len(), every function position has a
\* signature that maps to it, the index map has exactly one key per
\* FunctionInfo of infos, and a merge never changes the function that a
\* signature of the left operand resolves to.
C29_IndexMap ==
    /\ (pc = "function" /\ func.function_map.variant = "Overloaded") =>
          LET m == func.function_map
          IN /\ \A sig \in DOMAIN m.indices :
                   m.indices[sig] >= 0 /\ m.indices[sig] < Len(m.functions)
             /\ \A i \in 0..(Len(m.functions) - 1) :
                   \E sig \in DOMAIN m.indices : m.indices[sig] = i
             /\ DOMAIN m.indices = {m.infos[i].sig : i \in 1..Len(m.infos)}
             /\ Cardinality(DOMAIN m.indices) = Len(m.infos)
    /\ (Overloading /\ Merged) =>
          \A sig \in Signatures(MapA) :
             Resolve(result.returned.func.function_map, sig) = Resolve(MapA, sig)

C29_Witness ==
    /\ Overloading /\ Merged
    /\ MapA.variant = "Overloaded" /\ MapB.variant = "Overloaded"
    /\ func = result.returned.func
    /\ Len(func.function_map.functions) = 3
    /\ Cardinality(DOMAIN func.function_map.indices) = 4
    /\ Resolve(MapB, <<"i16">>) = "a"


\* C30: enum_partial_eq(a, b), the reflect_partial_eq of a derived enum, is
\* Some(true) only if b is an enum whose active variant has the name and the
\* kind of a's and whose fields compare equal pairwise; for b not an enum
\* and for another active variant it is Some(false).
C30_EnumPartialEq ==
    (Diffed /\ old.shape = "Enum" /\ ~old.dyn) =>
        LET r == ReflectPartialEq(old, new)
            same == /\ new.shape = "Enum"
                    /\ new.variant = old.variant
                    /\ new.vkind = old.vkind
        IN /\ r = "true" =>
                 /\ same
                 /\ Len(new.items) = Len(old.items)
                 /\ \A i \in 1..Len(old.items) :
                       ReflectPartialEq(old.items[i], new.items[i]) = "true"
           /\ ~same => r = "false"

====
